---- MODULE Spec2Model ----
(***************************************************************************)
(* NBA Fantasy Optimizer (src/app.py): one optimisation run, from the      *)
(* sidebar state to the terminal log record, with the roster integer       *)
(* program of the run and the solver's choice among its optimal solutions. *)
(***************************************************************************)
EXTENDS Integers, Sequences, FiniteSets, TLC

\* ------------------------------------------------------------------------
\* Program constants (src/app.py:28-30, 842)
\* ------------------------------------------------------------------------
MAX_PLAYERS_PER_TEAM == 2
TRANSFERS_ALLOWED == 2
ROSTER_SIZE == 10
\* one option more than three
loop_count_More == 3 + 1

loop_count == 1

\* position quotas written as literals in the model builder (src/app.py:893-894)
BackCourtQuota == 5
FrontCourtQuota == 5

\* starter caps written as literals in the model builder (src/app.py:901-905)
MaxStarters == 5
MaxStartersPerPos == 3

\* get_player_history_avg's None (two most recent games without minutes)
NoneAvg == -1

\* the number of played games get_player_history_avg averages over
LastGames == 5

\* ------------------------------------------------------------------------
\* Bounds of the model
\* ------------------------------------------------------------------------
MaxBank == 1
MaxMargin == 2
MaxPastTransfers == 2
MaxPrice == 60

\* ------------------------------------------------------------------------
\* The provider snapshot the run reads (bootstrap, fixtures, histories)
\* ------------------------------------------------------------------------
Players == 1..15

\* bootstrap['elements'] joined with element_types / teams
elements ==
  [p \in Players |->
     CASE p = 1  -> [team |-> 1, position_name |-> "Guard",       now_cost |-> 11, status |-> "a", chance |-> -1, total_points |-> 300]
       [] p = 2  -> [team |-> 1, position_name |-> "Guard",       now_cost |-> 10, status |-> "a", chance |-> -1, total_points |-> 250]
       [] p = 3  -> [team |-> 2, position_name |-> "Back Court",  now_cost |-> 10, status |-> "a", chance |-> -1, total_points |-> 200]
       [] p = 4  -> [team |-> 2, position_name |-> "Back Court",  now_cost |-> 10, status |-> "a", chance |-> -1, total_points |-> 150]
       [] p = 5  -> [team |-> 3, position_name |-> "Back Court",  now_cost |-> 10, status |-> "a", chance |-> 75, total_points |-> 100]
       [] p = 6  -> [team |-> 3, position_name |-> "Guard",       now_cost |-> 11, status |-> "a", chance |-> -1, total_points |-> 350]
       [] p = 7  -> [team |-> 3, position_name |-> "Front Court", now_cost |-> 10, status |-> "a", chance |-> -1, total_points |-> 280]
       [] p = 8  -> [team |-> 4, position_name |-> "Forward",     now_cost |-> 10, status |-> "a", chance |-> -1, total_points |-> 220]
       [] p = 9  -> [team |-> 4, position_name |-> "Forward",     now_cost |-> 10, status |-> "a", chance |-> 25, total_points |-> 180]
       [] p = 10 -> [team |-> 5, position_name |-> "Center",      now_cost |-> 10, status |-> "a", chance |-> -1, total_points |-> 120]
       [] p = 11 -> [team |-> 5, position_name |-> "Front Court", now_cost |-> 10, status |-> "a", chance |-> 10, total_points |-> 80]
       [] p = 12 -> [team |-> 5, position_name |-> "Forward",     now_cost |-> 9,  status |-> "a", chance |-> 50, total_points |-> 260]
       [] p = 13 -> [team |-> 5, position_name |-> "Forward",     now_cost |-> 9,  status |-> "a", chance |-> 40, total_points |-> 90]
       [] p = 14 -> [team |-> 4, position_name |-> "Forward",     now_cost |-> 9,  status |-> "a", chance |-> -1, total_points |-> 70]
       [] OTHER  -> [team |-> 5, position_name |-> "Front Court", now_cost |-> 10, status |-> "u", chance |-> 0,  total_points |-> 60]]

\* the value of chance_of_playing_next_round when the provider reports none
NullChance == -1

\* element-summary/{id}: the games of each player, all of them played before
\* the first day of the horizon.  Players 11 and 14 sat out their two most
\* recent games.
Game(kickoff, minutes, total_points) ==
  [kickoff |-> kickoff, minutes |-> minutes, total_points |-> total_points]

LastScore ==
  [p \in Players |->
     CASE p = 1 -> 30 [] p = 2 -> 25 [] p = 3 -> 24 [] p = 4 -> 23
       [] p = 5 -> 10 [] p = 6 -> 35 [] p = 7 -> 28 [] p = 8 -> 22
       [] p = 9 -> 18 [] p = 10 -> 12 [] p = 11 -> 8 [] p = 12 -> 26
       [] p = 13 -> 40 [] p = 14 -> 40 [] OTHER -> 6]

element_summary ==
  [p \in Players |->
     IF p \in {11, 14}
     THEN [ok |-> TRUE,
           history |-> << Game(-2, 30, LastScore[p]), Game(-1, 0, 0), Game(0, 0, 0) >>]
     ELSE [ok |-> TRUE, history |-> << Game(0, 30, LastScore[p]) >>]]

\* bootstrap['phases']: the name as the words the regular expression sees;
\* event ids count game days and run ahead of the gameweek numbers
phases ==
  << [name |-> <<"Overall">>,       start_event |-> 11, stop_event |-> 14],
     [name |-> <<"Gameweek", "1">>, start_event |-> 11, stop_event |-> 11],
     [name |-> <<"Gameweek", "2">>, start_event |-> 12, stop_event |-> 13],
     [name |-> <<"Gameweek", "3">>, start_event |-> 14, stop_event |-> 14] >>

\* the fixture list: event id, kickoff date, home and away team
fixtures_data ==
  << [event |-> 11, kickoff |-> 1, team_h |-> 2, team_a |-> 4],
     [event |-> 12, kickoff |-> 2, team_h |-> 1, team_a |-> 2],
     [event |-> 12, kickoff |-> 2, team_h |-> 4, team_a |-> 5],
     [event |-> 13, kickoff |-> 3, team_h |-> 3, team_a |-> 5],
     [event |-> 14, kickoff |-> 4, team_h |-> 1, team_a |-> 3] >>

\* the date an event without fixture gets ("Unknown" sorts after every date)
UnknownDate == 9999

\* the picks of the entry as fetch_picks returns them for the roster source
\* event: ten picks with their purchase prices
FullPicks ==
  << [element |-> 1,  purchase_price |-> 8],
     [element |-> 2,  purchase_price |-> 12],
     [element |-> 3,  purchase_price |-> 10],
     [element |-> 4,  purchase_price |-> 10],
     [element |-> 5,  purchase_price |-> 10],
     [element |-> 7,  purchase_price |-> 10],
     [element |-> 8,  purchase_price |-> 10],
     [element |-> 9,  purchase_price |-> 10],
     [element |-> 10, purchase_price |-> 10],
     [element |-> 11, purchase_price |-> 10] >>

\* the picks of an entry whose tenth player has left the league since: the
\* catalog lists him with status 'u'
UnavailablePicks ==
  [FullPicks EXCEPT ![ROSTER_SIZE] = [element |-> 15, purchase_price |-> 10]]

\* ------------------------------------------------------------------------
\* Helpers
\* ------------------------------------------------------------------------
Range(s) == {s[i] : i \in DOMAIN s}

RECURSIVE SumOver(_, _)
SumOver(S, f) ==
  IF S = {} THEN 0
  ELSE LET x == CHOOSE y \in S : TRUE IN f[x] + SumOver(S \ {x}, f)

MaxOf(S) == CHOOSE x \in S : \A y \in S : y <= x

Max2(a, b) == IF a >= b THEN a ELSE b

Min2(a, b) == IF a <= b THEN a ELSE b

\* ------------------------------------------------------------------------
\* Pure functions of the program
\* ------------------------------------------------------------------------
\* math.ceil(profit / 2)
\* the half rounded down
CeilHalf_Floor(profit) == profit \div 2

CeilHalf(profit) == (profit + 1) \div 2

calculate_selling_price(purchase_price, now_cost) ==
  IF now_cost <= purchase_price THEN now_cost
  ELSE now_cost - CeilHalf(now_cost - purchase_price)

\* int(s) of the digit strings that occur in phase names
NumberValue ==
  [s \in {"1", "2", "3", "02"} |->
     CASE s = "1" -> 1 [] s = "2" -> 2 [] s = "3" -> 3 [] OTHER -> 2]

\* int(re.search(r'Gameweek\s*(\d+)', name).group(1)): the number after the
\* first "Gameweek" that has one, or -1 without a match
GameweekNumber(name) ==
  LET hits == {i \in 1..(Len(name) - 1) :
                 name[i] = "Gameweek" /\ name[i + 1] \in DOMAIN NumberValue}
  IN IF hits = {} THEN -1
     ELSE NumberValue[name[(CHOOSE i \in hits : \A j \in hits : i <= j) + 1]]

\* the first index at which a list of flags is TRUE, 0 when none is
FirstIndex(flags) ==
  IF \E i \in DOMAIN flags : flags[i]
  THEN CHOOSE i \in DOMAIN flags : flags[i] /\ \A j \in 1..(i - 1) : ~flags[j]
  ELSE 0

\* the ascending list a..b
IntRange(a, b) == [i \in 1..Max2(b - a + 1, 0) |-> a + i - 1]

\* the fallback tried first, the name only after it
get_gameweek_event_range_StartFirst(bootstrap_phases, gameweek) ==
  LET byName(ph) == "Gameweek" \in {ph.name[i] : i \in DOMAIN ph.name}
                    /\ GameweekNumber(ph.name) = gameweek
      byStart(ph) == ph.start_event = gameweek
      i == FirstIndex([k \in DOMAIN bootstrap_phases |-> byStart(bootstrap_phases[k])])
      j == IF i # 0 THEN i
           ELSE FirstIndex([k \in DOMAIN bootstrap_phases |-> byName(bootstrap_phases[k])])
  IN IF j = 0 THEN << >>
     ELSE [n \in 1..Max2(bootstrap_phases[j].stop_event - bootstrap_phases[j].start_event + 1, 0)
             |-> bootstrap_phases[j].start_event + n - 1]

get_gameweek_event_range(bootstrap_phases, gameweek) ==
  LET byName(ph) == "Gameweek" \in {ph.name[i] : i \in DOMAIN ph.name}
                    /\ GameweekNumber(ph.name) = gameweek
      byStart(ph) == ph.start_event = gameweek
      i == FirstIndex([k \in DOMAIN bootstrap_phases |-> byName(bootstrap_phases[k])])
      j == IF i # 0 THEN i
           ELSE FirstIndex([k \in DOMAIN bootstrap_phases |-> byStart(bootstrap_phases[k])])
  IN IF j = 0 THEN << >>
     ELSE IntRange(bootstrap_phases[j].start_event, bootstrap_phases[j].stop_event)

\* history.sort(key=kickoff_time, reverse=True): newest first, games of the
\* same date in the order they came
RECURSIVE SortNewestFirst(_)
SortNewestFirst(h) ==
  IF h = << >> THEN << >>
  ELSE LET rest == SortNewestFirst(Tail(h))
           newer == SelectSeq(rest, LAMBDA g : g.kickoff > Head(h).kickoff)
           older == SelectSeq(rest, LAMBDA g : g.kickoff <= Head(h).kickoff)
       IN newer \o << Head(h) >> \o older

RECURSIVE SumPoints(_)
SumPoints(games) ==
  IF games = << >> THEN 0 ELSE Head(games).total_points + SumPoints(Tail(games))

\* get_player_history_avg for the fetched element summary data on the day
\* today_str.  The result is None (none), or the quotient sum / n: 0.0 is
\* 0 / 1.
NoneResult == [none |-> TRUE, sum |-> 0, n |-> 1]

Quotient(sum, n) == [none |-> FALSE, sum |-> sum, n |-> n]

\* the list cut to its first five games before the games without points
\* are removed
get_player_history_avg_CutFirst(data, today_str) ==
  IF ~data.ok THEN Quotient(0, 1)
  ELSE LET history == SortNewestFirst(
                        SelectSeq(data.history, LAMBDA h : h.kickoff < today_str))
           first_5 == SubSeq(history, 1, Min2(LastGames, Len(history)))
           last_5 == SelectSeq(first_5, LAMBDA g : g.total_points > 0)
       IN IF Len(history) >= 2 /\ history[1].minutes = 0 /\ history[2].minutes = 0
          THEN NoneResult
          ELSE IF last_5 = << >> THEN Quotient(0, 1)
          ELSE Quotient(SumPoints(last_5), Len(last_5))

get_player_history_avg(data, today_str) ==
  IF ~data.ok THEN Quotient(0, 1)
  ELSE LET history == SortNewestFirst(
                        SelectSeq(data.history, LAMBDA h : h.kickoff < today_str))
           played_games == SelectSeq(history, LAMBDA g : g.total_points > 0)
           last_5 == SubSeq(played_games, 1, Min2(LastGames, Len(played_games)))
       IN IF Len(history) >= 2 /\ history[1].minutes = 0 /\ history[2].minutes = 0
          THEN NoneResult
          ELSE IF last_5 = << >> THEN Quotient(0, 1)
          ELSE Quotient(SumPoints(last_5), Len(last_5))

\* the rate of a team without games, and the answer of the except branch
Half == [num |-> 1, den |-> 2]

\* a team without games counted as one that never won
WinRate_Zero(t) ==
  IF t.win + t.loss > 0 THEN [num |-> t.win, den |-> t.win + t.loss]
  ELSE [num |-> 0, den |-> 1]

\* rate = w / total if total > 0 else 0.5, as a fraction
WinRate(t) ==
  IF t.win + t.loss > 0 THEN [num |-> t.win, den |-> t.win + t.loss] ELSE Half

\* get_win_probability: the rows are looked up with .iloc[0], which raises
\* when the team is not in the table; the quotient rate1 / (rate1 + rate2)
\* is kept as a fraction
get_win_probability(team1_id, team2_id, teams_df) ==
  LET i1 == FirstIndex([k \in DOMAIN teams_df |-> teams_df[k].id = team1_id])
      i2 == FirstIndex([k \in DOMAIN teams_df |-> teams_df[k].id = team2_id])
  IN IF i1 = 0 \/ i2 = 0 THEN Half
     ELSE LET rate1 == WinRate(teams_df[i1])
              rate2 == WinRate(teams_df[i2])
          IN IF rate1.num = 0 /\ rate2.num = 0 THEN Half
             ELSE [num |-> rate1.num * rate2.den,
                   den |-> rate1.num * rate2.den + rate2.num * rate1.den]

\* a score in points: the provider's whole number over the divisor of
\* raw_pts / 10.0 and of pulp.value(prob.objective) / 10
PointsDivisor == 10

Tenth(raw) == [num |-> raw, den |-> PointsDivisor]

\* the sum of two scores in points
Plus(a, b) == [num |-> a.num + b.num, den |-> PointsDivisor]

\* simple_pos of a catalog position label
SimplePos(pos) ==
  IF pos \in {"Guard", "Back Court"} THEN "Back Court" ELSE "Front Court"

\* ------------------------------------------------------------------------
\* State
\* ------------------------------------------------------------------------
VARIABLES
  \* sidebar inputs and the provider's answers
  gameweek_input, weeks_to_optimize, safety_margin, play_wildcard,
  force_wc_on_day_1, use_sim_mode, sim_game_day, today, my_team_data,
  picks_by_event, forced_drop_ids, forced_keep_ids, forced_add_ids,
  forced_exclude_ids,
  \* the run
  pc, log, progress_bar, ui_messages, error,
  weeks_schedule, past_event_ids, future_event_ids,
  banked_points_total, banked_points_by_gw,
  transfers_limit_map, captain_used_map, total_budget_safe, player_eps,
  opt_idx, rank_state, solve_calls, prob, sol, previous_solutions_constraints,
  strategies, best_total_score,
  \* argument and result of a pure function applied on its own
  fn_call, fn_result,
  \* what the run before this one reported, in the same session
  first_run

inputs ==
  << gameweek_input, weeks_to_optimize, safety_margin, play_wildcard,
     force_wc_on_day_1, use_sim_mode, sim_game_day, today, my_team_data,
     picks_by_event, forced_drop_ids, forced_keep_ids, forced_add_ids,
     forced_exclude_ids, first_run >>

prepared ==
  << weeks_schedule, past_event_ids, future_event_ids, banked_points_total,
     banked_points_by_gw, transfers_limit_map, captain_used_map,
     total_budget_safe, player_eps >>

ranks ==
  << opt_idx, rank_state, solve_calls, prob, sol,
     previous_solutions_constraints, strategies, best_total_score >>

pure == << fn_call, fn_result >>

vars ==
  << inputs, pc, log, progress_bar, ui_messages, error, prepared, ranks, pure >>

\* ------------------------------------------------------------------------
\* Sidebar: the owned roster and its liquidation value (src/app.py:546-574)
\* ------------------------------------------------------------------------
active_players == {p \in Players : elements[p].status # "u"}

RosterLoaded == Len(my_team_data.picks) = ROSTER_SIZE

my_player_ids ==
  IF RosterLoaded THEN [i \in DOMAIN my_team_data.picks |-> my_team_data.picks[i].element]
  ELSE << >>

my_bank == IF RosterLoaded THEN my_team_data.bank ELSE 0

\* the picks that are in the active catalog carry a sale value
PricedPicks ==
  IF RosterLoaded
  THEN {i \in DOMAIN my_team_data.picks : my_team_data.picks[i].element \in active_players}
  ELSE {}

my_selling_prices ==
  [pid \in {my_team_data.picks[i].element : i \in PricedPicks} |->
     LET i == CHOOSE k \in PricedPicks : my_team_data.picks[k].element = pid
     IN calculate_selling_price(my_team_data.picks[i].purchase_price,
                                elements[pid].now_cost)]

current_roster_liquidation_value ==
  SumOver(DOMAIN my_selling_prices, my_selling_prices)

Owned == Range(my_player_ids)

\* ------------------------------------------------------------------------
\* Schedule and the past / future split (src/app.py:653-691)
\* ------------------------------------------------------------------------
\* the weeks of the horizon, cut at the first gameweek without a phase
RECURSIVE WeeksFrom(_)
WeeksFrom(w) ==
  IF w >= weeks_to_optimize THEN << >>
  ELSE LET ev_range == get_gameweek_event_range(phases, gameweek_input + w)
       IN IF ev_range = << >> THEN << >>
          ELSE << [gw |-> gameweek_input + w, events |-> ev_range] >> \o WeeksFrom(w + 1)

RECURSIVE Flatten(_)
Flatten(ws) == IF ws = << >> THEN << >> ELSE Head(ws).events \o Flatten(Tail(ws))

event_dates(eid) ==
  LET i == FirstIndex([k \in DOMAIN fixtures_data |-> fixtures_data[k].event = eid])
  IN IF i = 0 THEN UnknownDate ELSE fixtures_data[i].kickoff

\* the split with the current day on the settled side as well
PastOf_ThroughToday(ws) ==
  IF use_sim_mode
  THEN SubSeq(ws[1].events, 1, Min2(sim_game_day, Len(ws[1].events)))
  ELSE SelectSeq(Flatten(ws), LAMBDA eid : event_dates(eid) <= today)

PastOf(ws) ==
  IF use_sim_mode
  THEN SubSeq(ws[1].events, 1, Min2(sim_game_day - 1, Len(ws[1].events)))
  ELSE SelectSeq(Flatten(ws), LAMBDA eid : event_dates(eid) < today)

FutureOf(ws) ==
  IF use_sim_mode
  THEN SubSeq(ws[1].events, Min2(sim_game_day - 1, Len(ws[1].events)) + 1,
              Len(ws[1].events)) \o Flatten(Tail(ws))
  ELSE SelectSeq(Flatten(ws), LAMBDA eid : event_dates(eid) >= today)

\* event_id_to_solver_idx, as the set of solver days and the day of an event
Days == 0..(Len(future_event_ids) - 1)
SolverIdx(eid) ==
  (CHOOSE i \in DOMAIN future_event_ids :
      /\ future_event_ids[i] = eid
      /\ \A j \in DOMAIN future_event_ids : future_event_ids[j] = eid => j <= i) - 1
EventOfDay(d) == future_event_ids[d + 1]

\* ------------------------------------------------------------------------
\* History of the settled days (src/app.py:694-730)
\* ------------------------------------------------------------------------
GwOf(ws, eid) == (CHOOSE i \in DOMAIN ws : eid \in Range(ws[i].events))

CaptainUsedIn(data) ==
  \E i \in DOMAIN data.picks :
     data.picks[i].is_captain /\ data.picks[i].multiplier > 1

BankedByGw(ws, past) ==
  [gw \in {ws[GwOf(ws, past[i])].gw : i \in DOMAIN past} |->
     LET idx == {i \in DOMAIN past : ws[GwOf(ws, past[i])].gw = gw}
     IN Tenth(SumOver(idx, [i \in idx |-> picks_by_event[past[i]].points]))]

TransfersUsedW1(ws, past) ==
  LET idx == {i \in DOMAIN past : past[i] \in Range(ws[1].events)}
  IN SumOver(idx, [i \in idx |-> picks_by_event[past[i]].event_transfers])

CaptainUsedMap(ws, past) ==
  [gw \in {ws[i].gw : i \in DOMAIN ws} |->
     \E i \in DOMAIN past :
        ws[GwOf(ws, past[i])].gw = gw /\ CaptainUsedIn(picks_by_event[past[i]])]

\* the full allowance in every week, whatever the settled days used
TransfersLimitMap_Full(ws, past) ==
  [gw \in {ws[i].gw : i \in DOMAIN ws} |-> TRANSFERS_ALLOWED]

TransfersLimitMap(ws, past) ==
  [gw \in {ws[i].gw : i \in DOMAIN ws} |->
     IF gw = ws[1].gw THEN Max2(0, TRANSFERS_ALLOWED - TransfersUsedW1(ws, past))
     ELSE TRANSFERS_ALLOWED]

play_all_star_card == FALSE

\* the cap without the safety margin
BudgetCap_NoMargin == current_roster_liquidation_value + my_bank

\* total_budget_safe (src/app.py:735-740)
BudgetCap ==
  IF play_all_star_card THEN 9999999
  ELSE current_roster_liquidation_value + my_bank - safety_margin

\* ------------------------------------------------------------------------
\* Candidate pool and projected scores (src/app.py:758-796)
\* ------------------------------------------------------------------------
CandidateHead == 200

available_players ==
  {p \in active_players :
     elements[p].chance = NullChance \/ elements[p].chance >= 50}

\* sort_values('total_points', ascending=False).head(200)
top_candidates ==
  {p \in available_players :
     Cardinality({q \in available_players :
        \/ elements[q].total_points > elements[p].total_points
        \/ elements[q].total_points = elements[p].total_points /\ q < p})
       < CandidateHead}

candidate_ids ==
  ((top_candidates \cup Owned) \cup forced_add_ids) \ forced_exclude_ids

players_to_fetch == active_players \cap candidate_ids

\* avg = get_player_history_avg(pid), None as NoneAvg; the means of the
\* snapshot's histories are whole numbers
history_avg ==
  [p \in Players |->
     LET avg == get_player_history_avg(element_summary[p], today)
     IN IF avg.none THEN NoneAvg ELSE avg.sum \div avg.n]

\* a chance of 50 counted as doubtful too
IsDoubtful_AtMost50(pid) ==
  /\ elements[pid].chance # NullChance
  /\ elements[pid].chance <= 50
  /\ ~(pid \in forced_keep_ids \/ pid \in forced_add_ids)

IsDoubtful(pid) ==
  /\ elements[pid].chance # NullChance
  /\ elements[pid].chance < 50
  /\ ~(pid \in forced_keep_ids \/ pid \in forced_add_ids)

\* the players that get an entry in player_eps, and the entry
InPlayerEps(pid) ==
  \/ ~(history_avg[pid] = NoneAvg \/ IsDoubtful(pid))
  \/ pid \in Owned \/ pid \in forced_add_ids

PlayerEps ==
  [pid \in {p \in players_to_fetch : InPlayerEps(p)} |->
     IF history_avg[pid] = NoneAvg \/ IsDoubtful(pid) THEN 0 ELSE history_avg[pid]]

\* ------------------------------------------------------------------------
\* The integer program of one strategy rank (src/app.py:804-977)
\* An assignment a is the set of variables the solver sets to 1:
\* a.roster, a.trans_in, a.starter, a.captain are sets of <<pid, d_idx>>.
\* ------------------------------------------------------------------------
players_data == DOMAIN player_eps

\* every player at the current price, the owned ones too
Cost_NowCost(pid) == elements[pid].now_cost

Cost(pid) ==
  IF pid \in DOMAIN my_selling_prices THEN my_selling_prices[pid]
  ELSE elements[pid].now_cost

Pos(pid) == SimplePos(elements[pid].position_name)

bc_players == {p \in players_data : Pos(p) = "Back Court"}
fc_players == {p \in players_data : Pos(p) = "Front Court"}

teams_list == {elements[p].team : p \in Players}

\* player_schedule[pid].get(d_idx, 0)
player_schedule(pid, d) ==
  IF \E i \in DOMAIN fixtures_data :
        /\ fixtures_data[i].event = EventOfDay(d)
        /\ elements[pid].team \in {fixtures_data[i].team_h, fixtures_data[i].team_a}
  THEN 1 ELSE 0

\* the (pid, d_idx) pairs that get a starter and a captain variable
starter_keys == {k \in players_data \X Days : player_schedule(k[1], k[2]) > 0}

Val(S, k) == IF k \in S THEN 1 ELSE 0

On(S, d) == {k[1] : k \in {x \in S : x[2] = d}}

CostSum(R) == SumOver(R, [p \in R |-> Cost(p)])

\* constraints on the roster of one day
RosterSizeOK(R) == Cardinality(R) = ROSTER_SIZE

BudgetOK(R) == CostSum(R) <= total_budget_safe

\* the quotas one off, six and four
PositionOK_Uneven(R) ==
  /\ Cardinality(R \cap bc_players) = BackCourtQuota + 1
  /\ Cardinality(R \cap fc_players) = FrontCourtQuota - 1

PositionOK(R) ==
  /\ Cardinality(R \cap bc_players) = BackCourtQuota
  /\ Cardinality(R \cap fc_players) = FrontCourtQuota

TeamOK(R) ==
  \A t \in teams_list :
     Cardinality({p \in R : elements[p].team = t}) <= MAX_PLAYERS_PER_TEAM

ForcedDropOK(R) == \A pid \in forced_drop_ids : pid \notin R

ForcedAddOK(R, d) ==
  d = 0 => \A pid \in forced_add_ids : pid \in players_data => pid \in R

\* the keep list without its constraint
ForcedKeepOK_Unenforced(R) == TRUE

ForcedKeepOK(R) ==
  \A pid \in forced_keep_ids :
     (pid \in Owned /\ pid \in players_data) => pid \in R

RosterDayOK(R, d) ==
  /\ RosterSizeOK(R) /\ BudgetOK(R) /\ PositionOK(R) /\ TeamOK(R)
  /\ ForcedDropOK(R) /\ ForcedAddOK(R, d) /\ ForcedKeepOK(R)

\* the starters capped in total only
StarterCapOK_TotalOnly(S) == Cardinality(S) <= MaxStarters

\* constraints on the starters and the captain of one day
StarterCapOK(S) ==
  /\ Cardinality(S) <= MaxStarters
  /\ Cardinality(S \cap bc_players) <= MaxStartersPerPos
  /\ Cardinality(S \cap fc_players) <= MaxStartersPerPos

StarterLinkOK(a) ==
  /\ a.starter \subseteq starter_keys /\ a.captain \subseteq starter_keys
  /\ \A k \in starter_keys :
        /\ Val(a.starter, k) <= Val(a.roster, k)
        /\ Val(a.captain, k) <= Val(a.starter, k)

\* the linking of the later days turned round: the player that left
LinkOK_Leaving(a, pid, d) ==
  IF d = 0
  THEN Val(a.trans_in, <<pid, 0>>) >=
         Val(a.roster, <<pid, 0>>) - (IF pid \in Owned THEN 1 ELSE 0)
  ELSE Val(a.trans_in, <<pid, d>>) >=
         Val(a.roster, <<pid, d - 1>>) - Val(a.roster, <<pid, d>>)

\* trans_in >= roster - is_owned on day 0, roster - roster of the day before
LinkOK(a, pid, d) ==
  IF d = 0
  THEN Val(a.trans_in, <<pid, 0>>) >=
         Val(a.roster, <<pid, 0>>) - (IF pid \in Owned THEN 1 ELSE 0)
  ELSE Val(a.trans_in, <<pid, d>>) >=
         Val(a.roster, <<pid, d>>) - Val(a.roster, <<pid, d - 1>>)

LinkingOK(a) == \A pid \in players_data : \A d \in Days : LinkOK(a, pid, d)

\* weekly aggregates
Weeks == DOMAIN weeks_schedule

gw_indices(w) ==
  {SolverIdx(eid) : eid \in Range(weeks_schedule[w].events) \cap Range(future_event_ids)}

FirstIdx(w) == CHOOSE d \in gw_indices(w) : \A e \in gw_indices(w) : d <= e

is_wildcard_week(w) == w = 1 /\ play_wildcard

is_all_star_day_1(w) == w = 1 /\ play_all_star_card

wc_day_idx(w) ==
  IF is_wildcard_week(w)
  THEN IF force_wc_on_day_1 THEN FirstIdx(w) ELSE FirstIdx(w) + (sim_game_day - 1)
  ELSE -1

is_exempt_day(w, d) ==
  \/ is_wildcard_week(w) /\ d = wc_day_idx(w)
  \/ is_all_star_day_1(w) /\ d = FirstIdx(w) + (sim_game_day - 1)

CountedDays(w) == {d \in gw_indices(w) : ~is_exempt_day(w, d)}

TransLimitOK(a) ==
  \A w \in Weeks :
     gw_indices(w) # {} =>
       Cardinality({k \in a.trans_in : k[2] \in CountedDays(w)})
         <= transfers_limit_map[weeks_schedule[w].gw]

\* one captain a week, whatever the settled days show
CaptainsNeeded_Always(w) == 1

\* the right-hand side of the week's captain constraint
CaptainsNeeded(w) == IF captain_used_map[weeks_schedule[w].gw] THEN 0 ELSE 1

CaptainWeekOK(a) ==
  \A w \in Weeks :
     gw_indices(w) # {} =>
       Cardinality({k \in a.captain : k[2] \in gw_indices(w)}) = CaptainsNeeded(w)

\* the no-repeat cuts of the ranks solved before
CutsOK(a, cuts) ==
  \A i \in DOMAIN cuts :
     Cardinality(cuts[i] \cap a.roster) <= Cardinality(cuts[i]) - 1

Feasible(a, cuts) ==
  /\ a.roster \subseteq players_data \X Days
  /\ a.trans_in \subseteq players_data \X Days
  /\ \A d \in Days : RosterDayOK(On(a.roster, d), d)
  /\ \A d \in Days : StarterCapOK(On(a.starter, d))
  /\ StarterLinkOK(a)
  /\ LinkingOK(a)
  /\ TransLimitOK(a)
  /\ CaptainWeekOK(a)
  /\ CutsOK(a, cuts)

\* the starters alone, the captain not counted again
total_obj_NoCaptain(a) ==
  SumOver(a.starter, [k \in a.starter |-> player_eps[k[1]]])

\* total_obj: every starter once more when captain
total_obj(a) ==
  SumOver(a.starter, [k \in a.starter |-> player_eps[k[1]]])
    + SumOver(a.captain, [k \in a.captain |-> player_eps[k[1]]])

\* ------------------------------------------------------------------------
\* The solver (src/app.py:978): CBC returns an assignment that satisfies
\* every constraint and maximises total_obj, or a status other than Optimal
\* when no assignment satisfies them.  Which optimal assignment it returns is
\* its own choice, and so is the value of a trans_in variable that no
\* constraint and no objective term pins down.
\* ------------------------------------------------------------------------
RECURSIVE KSubsets(_, _)
KSubsets(S, k) ==
  IF k = 0 THEN {{}}
  ELSE IF Cardinality(S) < k THEN {}
  ELSE LET x == CHOOSE y \in S : TRUE
       IN KSubsets(S \ {x}, k) \cup {T \cup {x} : T \in KSubsets(S \ {x}, k - 1)}

\* the functions g on D with g[d] \in F[d]
RECURSIVE ProdFn(_, _)
ProdFn(D, F) ==
  IF D = {} THEN {<< >>}
  ELSE LET d == CHOOSE x \in D : TRUE
       IN {g @@ (d :> x) : g \in ProdFn(D \ {d}, F), x \in F[d]}

\* the roster variables of the roster sequence rs, a function on the days
\* 0..upto
RosterPairs(rs) == {k \in players_data \X DOMAIN rs : k[1] \in rs[k[2]]}

\* the trans_in variables that the linking constraints force to 1
ForcedTransfers(rs) ==
  LET a == [roster |-> RosterPairs(rs), trans_in |-> {}]
  IN {k \in players_data \X DOMAIN rs : ~LinkOK(a, k[1], k[2])}

\* the forced transfers of the first days stay within the weekly limits
PrefixTransfersOK(rs) == TransLimitOK([trans_in |-> ForcedTransfers(rs)])

RECURSIVE RosterSeqs(_, _)
RosterSeqs(d, dayRosters) ==
  IF d < 0 THEN {<< >>}
  ELSE {rs \in {g @@ (d :> R) : g \in RosterSeqs(d - 1, dayRosters), R \in dayRosters[d]} :
          PrefixTransfersOK(rs)}

\* a plan for one day: the starters s, the captain c (a set of at most one)
\* and the objective terms v of the day
RECURSIVE EpSum(_)
EpSum(R) ==
  IF R = {} THEN 0
  ELSE LET x == CHOOSE y \in R : TRUE IN player_eps[x] + EpSum(R \ {x})

\* the plans of greatest value among the starters Q allows: Q is the part of
\* a day's roster that has a starter variable that day
BestPlans(Q, withCaptain) ==
  LET starts == {<<S, EpSum(S)>> : S \in {T \in SUBSET Q : StarterCapOK(T)}}
      plans == IF withCaptain
               THEN UNION {{[s |-> t[1], c |-> {x}, v |-> t[2] + player_eps[x]] : x \in t[1]} :
                             t \in starts}
               ELSE {[s |-> t[1], c |-> {}, v |-> t[2]] : t \in starts}
      best == MaxOf({pl.v : pl \in plans})
  IN IF plans = {} THEN {} ELSE {pl \in plans : pl.v = best}

Playing(R, d) == {p \in R : <<p, d>> \in starter_keys}

\* the weeks that still have their captain to place
CaptainWeeks == {w \in Weeks : gw_indices(w) # {} /\ CaptainsNeeded(w) = 1}

RECURSIVE PlanSum(_, _)
PlanSum(D, plan) ==
  IF D = {} THEN 0
  ELSE LET d == CHOOSE x \in D : TRUE IN plan[d].v + PlanSum(D \ {d}, plan)

\* a value within five of the best one taken for optimal
IsOptimalValue_Near(v, best) == v >= best - 5

\* the status Optimal: no assignment that satisfies the constraints has a
\* greater objective
IsOptimalValue(v, best) == v = best

SolverOutcome(cuts) ==
  LET n == Cardinality(players_data)
      sized == IF n < ROSTER_SIZE THEN {}
               ELSE {players_data \ X : X \in KSubsets(players_data, n - ROSTER_SIZE)}
      base == {R \in sized : BudgetOK(R) /\ PositionOK(R) /\ TeamOK(R)}
      dayRosters == {<<d, {R \in base : RosterDayOK(R, d)}>> : d \in Days}
      DayRosters(d) == (CHOOSE t \in dayRosters : t[1] = d)[2]
      seqs == {rs \in RosterSeqs(Len(future_event_ids) - 1,
                                 [d \in Days |-> DayRosters(d)]) :
                 CutsOK([roster |-> RosterPairs(rs)], cuts)}
      \* best plans of every set of eligible starters, without and with captain
      qs == UNION {{Playing(R, d) : R \in DayRosters(d)} : d \in Days}
      plain == {<<Q, BestPlans(Q, FALSE)>> : Q \in qs}
      capt == {<<Q, BestPlans(Q, TRUE)>> : Q \in qs}
      Plain(Q) == (CHOOSE t \in plain : t[1] = Q)[2]
      Capt(Q) == (CHOOSE t \in capt : t[1] = Q)[2]
      capDays == ProdFn(CaptainWeeks, [w \in CaptainWeeks |-> gw_indices(w)])
      PlansOf(rs, cd) ==
        ProdFn(Days, [d \in Days |->
                        IF d \in Range(cd) THEN Capt(Playing(rs[d], d))
                        ELSE Plain(Playing(rs[d], d))])
      cands == UNION {UNION {{[rs |-> rs, plan |-> pf, v |-> PlanSum(Days, pf)] :
                                 pf \in PlansOf(rs, cd)} :
                               cd \in capDays} : rs \in seqs}
      best == MaxOf({c.v : c \in cands})
  IN IF cands = {} THEN [status |-> "Infeasible", solutions |-> {}]
     ELSE [status |-> "Optimal",
           solutions |->
             {[roster |-> RosterPairs(c.rs),
               starter |-> {k \in players_data \X Days : k[1] \in c.plan[k[2]].s},
               captain |-> {k \in players_data \X Days : k[1] \in c.plan[k[2]].c},
               trans_in |-> ForcedTransfers(c.rs)] :
                c \in {x \in cands : IsOptimalValue(x.v, best)}}]

\* the trans_in variables the solver may set beyond the forced ones: none, or
\* any one of the first day, as long as the weekly limits still hold
StrayTransfers(a) ==
  {{}} \cup {{k} : k \in (players_data \X {0}) \ a.trans_in}

\* ------------------------------------------------------------------------
\* The run (src/app.py:618-1130)
\* ------------------------------------------------------------------------
NoSol == [roster |-> {}, trans_in |-> {}, starter |-> {}, captain |-> {}]

NoProb == [idx |-> -1, cuts |-> << >>, status |-> "Not Solved"]

\* no run before this one
NoRun == [status |-> "NONE", strategies |-> << >>]

Raise(msg) ==
  /\ error' = msg
  /\ pc' = "except"

\* the state a pressed RUN button finds: the sidebar has run, nothing else
Idle ==
  /\ pc = "sidebar"
  /\ log = [status |-> "NONE", error_msg |-> "", result_summary |-> "", ends |-> 0]
  /\ progress_bar = "undefined"
  /\ ui_messages = << >>
  /\ error = ""
  /\ weeks_schedule = << >> /\ past_event_ids = << >> /\ future_event_ids = << >>
  /\ banked_points_total = Tenth(0) /\ banked_points_by_gw = << >>
  /\ transfers_limit_map = << >> /\ captain_used_map = << >>
  /\ total_budget_safe = 0 /\ player_eps = << >>
  /\ opt_idx = 0
  /\ rank_state = [k \in 0..(loop_count - 1) |-> "None"]
  /\ solve_calls = [k \in 0..(loop_count - 1) |-> 0]
  /\ prob = NoProb /\ sol = NoSol
  /\ previous_solutions_constraints = << >>
  /\ strategies = << >>
  /\ best_total_score = Tenth(0)

\* log_simulation_start (src/app.py:635-637)
RunStart ==
  /\ pc = "sidebar"
  /\ log' = [log EXCEPT !.status = "STARTED"]
  /\ pc' = "try"
  /\ UNCHANGED << inputs, progress_bar, ui_messages, error, prepared, ranks, pure >>

\* the roster check that is never taken
RosterSizeError_Never == FALSE

\* the condition of the roster check (src/app.py:641)
RosterSizeError == Len(my_player_ids) # ROSTER_SIZE

\* roster check, schedule, past/future split, history, budget, projected
\* scores (src/app.py:639-835)
Prepare ==
  /\ pc = "try"
  /\ IF RosterSizeError
     THEN /\ Raise("Initialization Error: initial roster size is incorrect")
          /\ UNCHANGED << progress_bar, prepared >>
     ELSE /\ progress_bar' = "shown"
          /\ LET ws == WeeksFrom(0) IN
             IF ws = << >>
             THEN /\ Raise("No valid events found")
                  /\ UNCHANGED prepared
             ELSE IF FutureOf(ws) = << >>
             THEN /\ Raise("All selected gameweeks have concluded")
                  /\ weeks_schedule' = ws
                  /\ past_event_ids' = PastOf(ws)
                  /\ future_event_ids' = FutureOf(ws)
                  /\ UNCHANGED << banked_points_total, banked_points_by_gw,
                                  transfers_limit_map, captain_used_map,
                                  total_budget_safe, player_eps >>
             ELSE /\ weeks_schedule' = ws
                  /\ past_event_ids' = PastOf(ws)
                  /\ future_event_ids' = FutureOf(ws)
                  /\ banked_points_by_gw' = BankedByGw(ws, PastOf(ws))
                  /\ banked_points_total' =
                       Tenth(SumOver(DOMAIN PastOf(ws),
                               [i \in DOMAIN PastOf(ws) |-> picks_by_event[PastOf(ws)[i]].points]))
                  /\ transfers_limit_map' = TransfersLimitMap(ws, PastOf(ws))
                  /\ captain_used_map' = CaptainUsedMap(ws, PastOf(ws))
                  /\ total_budget_safe' = BudgetCap
                  /\ player_eps' = PlayerEps
                  /\ pc' = "loop"
                  /\ error' = error
  /\ UNCHANGED << inputs, log, ui_messages, ranks, pure >>

\* a fresh problem for the rank, with the cuts of the ranks before it
\* (src/app.py:847-977)
BuildModel ==
  /\ pc = "loop"
  /\ opt_idx < loop_count
  /\ prob' = [idx |-> opt_idx, cuts |-> previous_solutions_constraints,
              status |-> "Not Solved"]
  /\ rank_state' = [rank_state EXCEPT ![opt_idx] = "Draft"]
  /\ sol' = NoSol
  /\ pc' = "draft"
  /\ UNCHANGED << inputs, log, progress_bar, ui_messages, error, prepared, pure,
                  opt_idx, solve_calls, previous_solutions_constraints,
                  strategies, best_total_score >>

\* prob.solve (src/app.py:978)
SolveModel ==
  /\ pc = "draft"
  /\ LET out == SolverOutcome(prob.cuts) IN
       /\ prob' = [prob EXCEPT !.status = out.status]
       /\ IF out.status = "Optimal"
          THEN \E a \in out.solutions : \E stray \in StrayTransfers(a) :
                 LET b == [a EXCEPT !.trans_in = a.trans_in \cup stray]
                 IN Feasible(b, prob.cuts) /\ sol' = b
          ELSE sol' = NoSol
  /\ solve_calls' = [solve_calls EXCEPT ![opt_idx] = @ + 1]
  /\ rank_state' = [rank_state EXCEPT ![opt_idx] = "Solved"]
  /\ pc' = "solved"
  /\ UNCHANGED << inputs, log, progress_bar, ui_messages, error, prepared, pure,
                  opt_idx, previous_solutions_constraints, strategies,
                  best_total_score >>

\* a failed solve sent back to the solver instead of raised
RejectSolution_Retry ==
  /\ pc = "solved"
  /\ prob.status # "Optimal"
  /\ ui_messages' = Append(ui_messages,
       [kind |-> "warning", rank |-> opt_idx, text |-> "Optimization failed"])
  /\ rank_state' = [rank_state EXCEPT ![opt_idx] = "Infeasible"]
  /\ pc' = "draft"
  /\ UNCHANGED << inputs, log, progress_bar, error, prepared, pure, opt_idx,
                  solve_calls, prob, sol, previous_solutions_constraints,
                  strategies, best_total_score >>

\* the status check on a failed solve (src/app.py:980-986)
RejectSolution ==
  /\ pc = "solved"
  /\ prob.status # "Optimal"
  /\ ui_messages' = Append(ui_messages,
       [kind |-> "warning", rank |-> opt_idx, text |-> "Optimization failed"])
  /\ rank_state' = [rank_state EXCEPT ![opt_idx] = "Infeasible"]
  /\ Raise("Solver failed with status: Infeasible. Check constraints.")
  /\ UNCHANGED << inputs, log, progress_bar, prepared, pure, opt_idx, solve_calls,
                  prob, sol, previous_solutions_constraints, strategies,
                  best_total_score >>

\* the week's total with the captain counted like any other starter
GwTotal_CaptainOnce(a, w) ==
  LET gw == weeks_schedule[w].gw
      starts == {k \in a.starter : k[2] \in gw_indices(w)}
  IN Plus(IF gw \in DOMAIN banked_points_by_gw THEN banked_points_by_gw[gw] ELSE Tenth(0),
          Tenth(SumOver(starts, [k \in starts |-> player_eps[k[1]]])))

\* gw_total: the banked points of the week and, for its optimized days, ep / 10
\* of every starter, doubled for the captain (src/app.py:1000-1012)
GwTotal(a, w) ==
  LET gw == weeks_schedule[w].gw
      starts == {k \in a.starter : k[2] \in gw_indices(w)}
  IN Plus(IF gw \in DOMAIN banked_points_by_gw THEN banked_points_by_gw[gw] ELSE Tenth(0),
          Tenth(SumOver(starts, [k \in starts |->
                  IF k \in a.captain THEN 2 * player_eps[k[1]] ELSE player_eps[k[1]]])))

gw_breakdown(a) ==
  [gw \in {weeks_schedule[w].gw : w \in Weeks} |->
     GwTotal(a, CHOOSE w \in Weeks :
                   /\ weeks_schedule[w].gw = gw
                   /\ \A v \in Weeks : weeks_schedule[v].gw = gw => v <= w)]

\* extraction of the solution and its report (src/app.py:988-1111)
AcceptSolution ==
  /\ pc = "solved"
  /\ prob.status = "Optimal"
  /\ previous_solutions_constraints' =
       Append(previous_solutions_constraints,
              {k \in players_data \X Days : Val(sol.roster, k) = 1})
  /\ strategies' = Append(strategies,
       [rank |-> opt_idx, roster |-> sol.roster, starter |-> sol.starter,
        captain |-> sol.captain, future_proj |-> Tenth(total_obj(sol)),
        total_proj |-> Plus(banked_points_total, Tenth(total_obj(sol))),
        gw_breakdown |-> gw_breakdown(sol)])
  /\ best_total_score' =
       IF opt_idx = 0 THEN Plus(banked_points_total, Tenth(total_obj(sol)))
       ELSE best_total_score
  /\ rank_state' = [rank_state EXCEPT ![opt_idx] = "Accepted"]
  /\ opt_idx' = opt_idx + 1
  /\ pc' = "loop"
  /\ UNCHANGED << inputs, log, progress_bar, ui_messages, error, prepared, pure,
                  solve_calls, prob, sol >>

\* SUCCESS cleanup (src/app.py:1113-1120)
Finish ==
  /\ pc = "loop"
  /\ opt_idx >= loop_count
  /\ progress_bar' = "full"
  /\ ui_messages' = Append(ui_messages,
       [kind |-> "success", rank |-> -1, text |-> "Optimization Complete!"])
  /\ log' = [log EXCEPT !.status = "SUCCESS", !.ends = @ + 1,
                        !.result_summary = "Score"]
  /\ pc' = "done"
  /\ UNCHANGED << inputs, error, prepared, ranks, pure >>

\* the except block (src/app.py:1122-1130): progress_bar.empty() comes first
\* and raises NameError when the name was never bound; the script then ends
\* with that exception, before log_simulation_end and st.error
HandleError ==
  /\ pc = "except"
  /\ IF progress_bar = "undefined"
     THEN /\ pc' = "crashed"
          /\ ui_messages' = Append(ui_messages,
               [kind |-> "exception", rank |-> -1, text |-> "NameError: progress_bar"])
          /\ UNCHANGED << log, progress_bar >>
     ELSE /\ progress_bar' = "cleared"
          /\ log' = [log EXCEPT !.status = "ERROR", !.ends = @ + 1,
                                !.error_msg = error]
          /\ ui_messages' = Append(ui_messages,
               [kind |-> "error", rank |-> -1, text |-> error])
          /\ pc' = "done"
  /\ UNCHANGED << inputs, error, prepared, ranks, pure >>

Next ==
  \/ RunStart
  \/ Prepare
  \/ BuildModel
  \/ SolveModel
  \/ RejectSolution
  \/ AcceptSolution
  \/ Finish
  \/ HandleError

\* ------------------------------------------------------------------------
\* Initial states: what the sidebar holds when RUN is pressed
\* ------------------------------------------------------------------------
MaxWeeks == 2
MaxToday == 4

ShortPicks == SubSeq(FullPicks, 1, ROSTER_SIZE - 1)

\* fetch_picks for the roster source event: ten picks and the bank, a roster
\* that is one pick short, or the empty structure of a failed fetch
TeamDataChoices ==
  {[picks |-> FullPicks, bank |-> b] : b \in 0..MaxBank}
    \cup {[picks |-> ShortPicks, bank |-> 0], [picks |-> << >>, bank |-> 0]}

\* fetch_picks for a settled day: its points, the transfers made that day and
\* the picks (the captain's pick is all that is read of them)
PastData(t, c) ==
  [points |-> 300, event_transfers |-> t,
   picks |-> << [element |-> 1, is_captain |-> c, multiplier |-> IF c THEN 2 ELSE 1] >>]

PastDataChoices == {PastData(t, c) : t \in 0..MaxPastTransfers, c \in BOOLEAN}

Events == phases[1].start_event..phases[1].stop_event

\* the events whose picks the run fetches
FetchedEvents ==
  IF WeeksFrom(0) = << >> THEN {} ELSE Range(PastOf(WeeksFrom(0)))

max_days_in_gw ==
  IF Len(get_gameweek_event_range(phases, gameweek_input)) = 0 THEN 7
  ELSE Len(get_gameweek_event_range(phases, gameweek_input))

NoOverrides ==
  /\ forced_drop_ids = {} /\ forced_keep_ids = {}
  /\ forced_add_ids = {} /\ forced_exclude_ids = {}

\* runs that differ in budget, horizon and cursor; a quiet history
InitBudgets ==
  /\ gameweek_input = 2
  /\ weeks_to_optimize \in 1..MaxWeeks
  /\ safety_margin \in 0..MaxMargin
  /\ play_wildcard = FALSE /\ force_wc_on_day_1 = FALSE
  /\ use_sim_mode \in BOOLEAN
  /\ sim_game_day \in (IF use_sim_mode THEN 1..max_days_in_gw ELSE {1})
  /\ today \in (IF use_sim_mode THEN {2} ELSE 2..MaxToday)
  /\ my_team_data \in TeamDataChoices
  /\ picks_by_event = [e \in Events |-> PastData(0, FALSE)]
  /\ NoOverrides

\* runs that differ in what the settled days used up and in the wildcard
InitHistories ==
  /\ gameweek_input = 2
  /\ weeks_to_optimize \in 1..MaxWeeks
  /\ safety_margin = 0
  /\ play_wildcard \in BOOLEAN
  /\ force_wc_on_day_1 \in (IF play_wildcard THEN BOOLEAN ELSE {FALSE})
  /\ use_sim_mode \in BOOLEAN
  /\ sim_game_day \in (IF use_sim_mode \/ (play_wildcard /\ ~force_wc_on_day_1)
                       THEN 1..max_days_in_gw ELSE {1})
  /\ today = (IF use_sim_mode THEN 2 ELSE 3)
  /\ my_team_data = [picks |-> FullPicks, bank |-> 1]
  /\ \E f \in [FetchedEvents -> PastDataChoices] :
        picks_by_event = [e \in Events |-> IF e \in FetchedEvents THEN f[e]
                                            ELSE PastData(0, FALSE)]
  /\ NoOverrides

\* what the four override lists of the sidebar hold: the first two offer the
\* owned players (one player may be picked in both), the third the others,
\* the fourth the others not forced in
DropChoices == {{}, {5}}
KeepChoices == {{}, {5}, {9}, {11}}
AddChoices == {{}, {13}, {14}}
ExcludeChoices == {{}, {12}}

\* runs that differ in the manual overrides, on a horizon of one week that
\* starts on its first or on its second day
InitOverrides ==
  /\ gameweek_input = 2
  /\ weeks_to_optimize = 1
  /\ safety_margin = 0
  /\ play_wildcard = FALSE /\ force_wc_on_day_1 = FALSE
  /\ use_sim_mode = TRUE
  /\ sim_game_day \in 1..max_days_in_gw
  /\ today = 2
  /\ my_team_data = [picks |-> FullPicks, bank |-> 1]
  /\ picks_by_event = [e \in Events |-> PastData(0, FALSE)]
  /\ forced_drop_ids \in DropChoices
  /\ forced_keep_ids \in KeepChoices
  /\ forced_add_ids \in {A \in AddChoices : A \cap Owned = {}}
  /\ forced_exclude_ids \in {X \in ExcludeChoices : X \cap (Owned \cup forced_add_ids) = {}}

\* runs that start in the last gameweek the provider has a phase for
InitLastWeek ==
  /\ gameweek_input = 3
  /\ weeks_to_optimize \in 1..MaxWeeks
  /\ safety_margin = 0
  /\ play_wildcard = FALSE /\ force_wc_on_day_1 = FALSE
  /\ use_sim_mode = FALSE /\ sim_game_day = 1
  /\ today = 2
  /\ my_team_data \in {[picks |-> FullPicks, bank |-> b] : b \in 0..MaxBank}
  /\ picks_by_event = [e \in Events |-> PastData(0, FALSE)]
  /\ NoOverrides

\* runs of an entry that owns a player the catalog lists as unavailable, with
\* a bank that cannot and a bank that can pay for a tenth player
InitUnavailable ==
  /\ gameweek_input = 2
  /\ weeks_to_optimize = 1
  /\ safety_margin \in 0..MaxMargin
  /\ play_wildcard = FALSE /\ force_wc_on_day_1 = FALSE
  /\ use_sim_mode = TRUE
  /\ sim_game_day \in 1..max_days_in_gw
  /\ today = 2
  /\ my_team_data \in {[picks |-> UnavailablePicks, bank |-> b] : b \in {0, 10}}
  /\ picks_by_event = [e \in Events |-> PastData(0, FALSE)]
  /\ NoOverrides

InitStatus ==
  /\ InitUnavailable
  /\ Idle
  /\ fn_call = << >> /\ fn_result = 0
  /\ first_run = NoRun

SpecStatus == InitStatus /\ [][Next]_vars

Init ==
  /\ InitBudgets \/ InitHistories \/ InitOverrides \/ InitLastWeek
  /\ Idle
  /\ fn_call = << >> /\ fn_result = 0
  /\ first_run = NoRun

Spec == Init /\ [][Next]_vars

\* the runs under manual overrides and the runs of the last gameweek alone
InitManual ==
  /\ InitOverrides \/ InitLastWeek
  /\ Idle
  /\ fn_call = << >> /\ fn_result = 0
  /\ first_run = NoRun

SpecManual == InitManual /\ [][Next]_vars

\* RUN pressed once more after a run has ended, the sidebar untouched: the
\* script starts over with the same inputs and the same cached provider data
RunAgain ==
  /\ pc = "done"
  /\ first_run = NoRun
  /\ first_run' = [status |-> log.status,
                   strategies |-> [i \in DOMAIN strategies |->
                                     [rank |-> strategies[i].rank,
                                      future_proj |-> strategies[i].future_proj,
                                      total_proj |-> strategies[i].total_proj]]]
  /\ pc' = "sidebar"
  /\ log' = [status |-> "NONE", error_msg |-> "", result_summary |-> "", ends |-> 0]
  /\ progress_bar' = "undefined"
  /\ ui_messages' = << >>
  /\ error' = ""
  /\ weeks_schedule' = << >> /\ past_event_ids' = << >> /\ future_event_ids' = << >>
  /\ banked_points_total' = Tenth(0) /\ banked_points_by_gw' = << >>
  /\ transfers_limit_map' = << >> /\ captain_used_map' = << >>
  /\ total_budget_safe' = 0 /\ player_eps' = << >>
  /\ opt_idx' = 0
  /\ rank_state' = [k \in 0..(loop_count - 1) |-> "None"]
  /\ solve_calls' = [k \in 0..(loop_count - 1) |-> 0]
  /\ prob' = NoProb /\ sol' = NoSol
  /\ previous_solutions_constraints' = << >>
  /\ strategies' = << >>
  /\ best_total_score' = Tenth(0)
  /\ UNCHANGED << gameweek_input, weeks_to_optimize, safety_margin, play_wildcard,
                  force_wc_on_day_1, use_sim_mode, sim_game_day, today,
                  my_team_data, picks_by_event, forced_drop_ids, forced_keep_ids,
                  forced_add_ids, forced_exclude_ids, pure >>

NextTwice == Next \/ RunAgain

SpecTwice == InitManual /\ [][NextTwice]_vars

\* ------------------------------------------------------------------------
\* calculate_selling_price applied on its own to a purchase price and a
\* current price
\* ------------------------------------------------------------------------
InitPrice ==
  /\ gameweek_input = 2 /\ weeks_to_optimize = 1 /\ safety_margin = 0
  /\ play_wildcard = FALSE /\ force_wc_on_day_1 = FALSE
  /\ use_sim_mode = FALSE /\ sim_game_day = 1 /\ today = 2
  /\ my_team_data = [picks |-> FullPicks, bank |-> 0]
  /\ picks_by_event = [e \in Events |-> PastData(0, FALSE)]
  /\ NoOverrides
  /\ Idle
  /\ fn_call = << >> /\ fn_result = 0
  /\ first_run = NoRun

ApplySellingPrice ==
  /\ fn_call = << >>
  /\ \E purchase_price \in 0..MaxPrice : \E now_cost \in 0..MaxPrice :
        /\ fn_call' = <<"calculate_selling_price", purchase_price, now_cost>>
        /\ fn_result' = calculate_selling_price(purchase_price, now_cost)
  /\ UNCHANGED << inputs, pc, log, progress_bar, ui_messages, error, prepared, ranks >>

NextPrice == ApplySellingPrice

SpecPrice == InitPrice /\ [][NextPrice]_vars

\* ------------------------------------------------------------------------
\* get_gameweek_event_range applied on its own to a list of phases and a
\* gameweek number
\* ------------------------------------------------------------------------
MaxEvent == 3

PhaseNames ==
  { <<"Overall">>, <<"Gameweek">>, <<"Gameweek", "1">>, <<"Gameweek", "02">>,
    <<"Finals", "Gameweek", "3">> }

\* a phase may stop before it starts
PhaseChoices ==
  {[name |-> n, start_event |-> a, stop_event |-> b] :
     n \in PhaseNames, a \in 1..MaxEvent, b \in 0..MaxEvent}

PhaseLists ==
  {<< >>} \cup {<<x>> : x \in PhaseChoices}
    \cup {<<x, y>> : x \in PhaseChoices, y \in PhaseChoices}

ApplyEventRange ==
  /\ fn_call = << >>
  /\ \E bootstrap_phases \in PhaseLists : \E gameweek \in 1..MaxEvent :
        /\ fn_call' = <<"get_gameweek_event_range", bootstrap_phases, gameweek>>
        /\ fn_result' = get_gameweek_event_range(bootstrap_phases, gameweek)
  /\ UNCHANGED << inputs, pc, log, progress_bar, ui_messages, error, prepared, ranks >>

SpecRange == InitPrice /\ [][ApplyEventRange]_vars

\* ------------------------------------------------------------------------
\* get_player_history_avg applied on its own to a game history and a date
\* ------------------------------------------------------------------------
MaxGames == 6

\* a game the player sat out, a game played without points and a game played
\* with points that tell the games apart
GameOfKind(kind, kickoff) ==
  CASE kind = "out" -> Game(kickoff, 0, 0)
    [] kind = "blank" -> Game(kickoff, 20, 0)
    [] OTHER -> Game(kickoff, 30, 10 * kickoff)

\* the histories of n games on the dates 1..n, oldest or newest first, and
\* the answer of a failed fetch
HistoryChoices ==
  {[ok |-> FALSE, history |-> << >>]} \cup
  UNION {{[ok |-> TRUE,
           history |-> [i \in 1..n |->
                          LET kickoff == IF oldestFirst THEN i ELSE n + 1 - i
                          IN GameOfKind(kinds[kickoff], kickoff)]] :
            kinds \in [1..n -> {"out", "blank", "played"}], oldestFirst \in BOOLEAN} :
         n \in 0..MaxGames}

ApplyHistoryAvg ==
  /\ fn_call = << >>
  /\ \E data \in HistoryChoices : \E today_str \in 1..(Len(data.history) + 1) :
        /\ fn_call' = <<"get_player_history_avg", data, today_str>>
        /\ fn_result' = get_player_history_avg(data, today_str)
  /\ UNCHANGED << inputs, pc, log, progress_bar, ui_messages, error, prepared, ranks >>

SpecHistory == InitPrice /\ [][ApplyHistoryAvg]_vars

\* ------------------------------------------------------------------------
\* get_win_probability applied on its own to two team ids and a team table
\* ------------------------------------------------------------------------
MaxRecord == 2

TeamRows ==
  {[id |-> i, win |-> w, loss |-> l] : i \in 1..2, w \in 0..MaxRecord, l \in 0..MaxRecord}

\* the tables of one and of two teams
TeamTables ==
  {<<x>> : x \in TeamRows} \cup {<<x, y>> \in TeamRows \X TeamRows : x.id # y.id}

ApplyWinProbability ==
  /\ fn_call = << >>
  /\ \E teams_df \in TeamTables : \E team1_id \in 1..2 : \E team2_id \in 1..2 :
        /\ fn_call' = <<"get_win_probability", team1_id, team2_id, teams_df>>
        /\ fn_result' = get_win_probability(team1_id, team2_id, teams_df)
  /\ UNCHANGED << inputs, pc, log, progress_bar, ui_messages, error, prepared, ranks >>

SpecWin == InitPrice /\ [][ApplyWinProbability]_vars

\* ------------------------------------------------------------------------
\* Properties of the accepted solutions
\* ------------------------------------------------------------------------
\* the players a reported strategy holds, starts and captains on day d
HeldOn(st, d) == {p \in Players : <<p, d>> \in st.roster}
StartsOn(st, d) == {p \in Players : <<p, d>> \in st.starter}
CaptainsOn(st, d) == {p \in Players : <<p, d>> \in st.captain}

IsBackCourt(p) == elements[p].position_name \in {"Guard", "Back Court"}

\* the optimized days of the w-th week of the schedule, and its settled events
DaysOfWeek(w) ==
  {d \in Days : \E i \in DOMAIN weeks_schedule[w].events :
                   weeks_schedule[w].events[i] = future_event_ids[d + 1]}

SettledOfWeek(w) ==
  {past_event_ids[i] : i \in DOMAIN past_event_ids}
     \cap {weeks_schedule[w].events[i] : i \in DOMAIN weeks_schedule[w].events}

\* C1: in every accepted solution, on every optimized day the roster has
\* exactly 10 players, exactly 5 of them Back Court and exactly 5 Front Court,
\* and no team contributes more than 2 of them.
C1_RosterShape ==
  \A i \in DOMAIN strategies : \A d \in Days :
     LET R == HeldOn(strategies[i], d) IN
       /\ Cardinality(R) = 10
       /\ Cardinality({p \in R : IsBackCourt(p)}) = 5
       /\ Cardinality({p \in R : ~IsBackCourt(p)}) = 5
       /\ \A p \in R :
            Cardinality({q \in R : elements[q].team = elements[p].team}) <= 2

\* an accepted solution that brought in a player the entry did not own, on a
\* team of which the entry already owned two
C1_Witness ==
  \E i \in DOMAIN strategies : \E d \in Days : \E p \in HeldOn(strategies[i], d) :
     /\ p \notin Owned
     /\ Cardinality({q \in Owned : elements[q].team = elements[p].team}) = 2

\* C2: in every accepted solution, on every optimized day the cost of the held
\* players (an owned player at the sale value, any other at the current price)
\* is at most the sale values of the owned roster plus the bank minus the
\* safety margin.
SaleValueOf(p) ==
  LET i == CHOOSE k \in DOMAIN my_team_data.picks : my_team_data.picks[k].element = p
  IN calculate_selling_price(my_team_data.picks[i].purchase_price, elements[p].now_cost)

RECURSIVE HeldCost(_)
HeldCost(R) ==
  IF R = {} THEN 0
  ELSE LET p == CHOOSE x \in R : TRUE
       IN (IF p \in Owned THEN SaleValueOf(p) ELSE elements[p].now_cost)
            + HeldCost(R \ {p})

RECURSIVE SaleSum(_)
SaleSum(R) ==
  IF R = {} THEN 0
  ELSE LET p == CHOOSE x \in R : TRUE IN SaleValueOf(p) + SaleSum(R \ {p})

C2_WithinBudget ==
  \A i \in DOMAIN strategies : \A d \in Days :
     HeldCost(HeldOn(strategies[i], d))
       <= SaleSum(Owned) + my_team_data.bank - safety_margin

\* an accepted solution under a positive safety margin whose roster of some day
\* costs exactly the cap
C2_Witness ==
  /\ safety_margin > 0
  /\ \E i \in DOMAIN strategies : \E d \in Days :
        HeldCost(HeldOn(strategies[i], d))
          = SaleSum(Owned) + my_team_data.bank - safety_margin

\* C3: in every accepted solution, in every week the players that enter the
\* roster on the week's non-exempt optimized days (absent the day before, or
\* not owned on day 0) number at most the allowance: max(0, 2 - transfers of the
\* settled days of week 1) in the first week, 2 in every later week.
RECURSIVE TransfersMade(_)
TransfersMade(E) ==
  IF E = {} THEN 0
  ELSE LET e == CHOOSE x \in E : TRUE
       IN picks_by_event[e].event_transfers + TransfersMade(E \ {e})

Entered(st, w) ==
  {k \in Players \X DaysOfWeek(w) :
     /\ ~is_exempt_day(w, k[2])
     /\ k \in st.roster
     /\ IF k[2] = 0 THEN k[1] \notin Owned ELSE <<k[1], k[2] - 1>> \notin st.roster}

Allowance(w) ==
  IF w = 1
  THEN (IF 2 - TransfersMade(SettledOfWeek(1)) > 0
        THEN 2 - TransfersMade(SettledOfWeek(1)) ELSE 0)
  ELSE 2

C3_WeeklyTransfers ==
  \A i \in DOMAIN strategies : \A w \in DOMAIN weeks_schedule :
     Cardinality(Entered(strategies[i], w)) <= Allowance(w)

\* an accepted solution of a run whose first week had one transfer left, and
\* used it
C3_Witness ==
  \E i \in DOMAIN strategies :
     /\ TransfersMade(SettledOfWeek(1)) = 1
     /\ Cardinality(Entered(strategies[i], 1)) = 1

\* C4: in every accepted solution, every week that has an optimized day has
\* exactly one captain over its optimized days when no settled day of the week
\* shows a used captain (a pick with is_captain and multiplier > 1) and none
\* when one does; no day has more than one captain.
CaptainShown(w) ==
  \E e \in SettledOfWeek(w) : \E i \in DOMAIN picks_by_event[e].picks :
     picks_by_event[e].picks[i].is_captain /\ picks_by_event[e].picks[i].multiplier > 1

CaptainsOfWeek(st, w) == {k \in st.captain : k[2] \in DaysOfWeek(w)}

C4_WeeklyCaptain ==
  \A i \in DOMAIN strategies :
     /\ \A w \in DOMAIN weeks_schedule :
          DaysOfWeek(w) # {} =>
            Cardinality(CaptainsOfWeek(strategies[i], w))
              = (IF CaptainShown(w) THEN 0 ELSE 1)
     /\ \A d \in Days : Cardinality(CaptainsOn(strategies[i], d)) <= 1

\* an accepted solution over two weeks: the first with its captain used on a
\* settled day and none placed, the second with its one captain
C4_Witness ==
  \E i \in DOMAIN strategies :
     /\ Len(weeks_schedule) = 2
     /\ DaysOfWeek(1) # {} /\ CaptainShown(1)
     /\ CaptainsOfWeek(strategies[i], 1) = {}
     /\ Cardinality(CaptainsOfWeek(strategies[i], 2)) = 1

\* C4 as stated, for every week of the schedule, a week whose days are all
\* settled included
C4_EveryWeek ==
  \A i \in DOMAIN strategies : \A w \in DOMAIN weeks_schedule :
     Cardinality(CaptainsOfWeek(strategies[i], w))
       = (IF CaptainShown(w) THEN 0 ELSE 1)

\* C5: in every accepted solution, on every optimized day every captain is a
\* starter and every starter is on the roster, at most 5 players start, at
\* most 3 of them Back Court and at most 3 Front Court, and nobody starts or
\* captains on a day on which his team has no fixture.
HasFixture(p, d) ==
  \E i \in DOMAIN fixtures_data :
     /\ fixtures_data[i].event = future_event_ids[d + 1]
     /\ (fixtures_data[i].team_h = elements[p].team
           \/ fixtures_data[i].team_a = elements[p].team)

C5_Lineup ==
  \A i \in DOMAIN strategies : \A d \in Days :
     LET st == strategies[i]
         S == StartsOn(st, d)
     IN /\ CaptainsOn(st, d) \subseteq S
        /\ S \subseteq HeldOn(st, d)
        /\ Cardinality(S) <= 5
        /\ Cardinality({p \in S : IsBackCourt(p)}) <= 3
        /\ Cardinality({p \in S : ~IsBackCourt(p)}) <= 3
        /\ \A p \in S : HasFixture(p, d)

\* an accepted solution that starts five on a day, three of one position, and
\* leaves on the bench a held player of that position who has a fixture and a
\* higher projected score than a starter of the other position
C5_Witness ==
  \E i \in DOMAIN strategies : \E d \in Days :
     LET st == strategies[i]
         S == StartsOn(st, d)
     IN /\ Cardinality(S) = 5
        /\ \E bc \in BOOLEAN :
              /\ Cardinality({p \in S : IsBackCourt(p) = bc}) = 3
              /\ \E p \in HeldOn(st, d) \ S : \E q \in S :
                    /\ IsBackCourt(p) = bc /\ HasFixture(p, d)
                    /\ IsBackCourt(q) # bc /\ player_eps[p] > player_eps[q]

\* ------------------------------------------------------------------------
\* The sale value
\* ------------------------------------------------------------------------
\* C6: calculate_selling_price(pp, cp) is cp when cp <= pp, and cp less the
\* least integer that is at least half of cp - pp when cp > pp; (50, 57) and
\* (50, 56) both give 53.
C6_SellingPrice ==
  (Len(fn_call) = 3 /\ fn_call[1] = "calculate_selling_price") =>
     LET pp == fn_call[2]
         cp == fn_call[3]
     IN /\ cp <= pp => fn_result = cp
        /\ cp > pp =>
             \E fee \in 0..(cp - pp) :
                /\ 2 * fee >= cp - pp
                /\ 2 * (fee - 1) < cp - pp
                /\ fn_result = cp - fee
        /\ (pp = 50 /\ cp = 57) => fn_result = 53
        /\ (pp = 50 /\ cp = 56) => fn_result = 53

\* the call with an odd profit: 50 and 57 give 53
C6_Witness ==
  fn_call = <<"calculate_selling_price", 50, 57>> /\ fn_result = 53

\* ------------------------------------------------------------------------
\* The strategy ranks and the end of a run
\* ------------------------------------------------------------------------
RankEdges ==
  {<<"None", "Draft">>, <<"Draft", "Solved">>,
   <<"Solved", "Accepted">>, <<"Solved", "Infeasible">>}

\* C8: a run has at most three ranks; every rank goes Draft -> Solved ->
\* (Accepted | Infeasible) and through no other change; the model of a rank is
\* built only when every rank before it is Accepted and its roster extracted.
C8_RankLifecycle ==
  [][ /\ Cardinality(DOMAIN rank_state) <= 3
      /\ \A k \in DOMAIN rank_state :
           /\ rank_state'[k] # rank_state[k] =>
                <<rank_state[k], rank_state'[k]>> \in RankEdges
           /\ (rank_state[k] = "None" /\ rank_state'[k] = "Draft") =>
                /\ \A j \in DOMAIN rank_state : j < k => rank_state[j] = "Accepted"
                /\ \A j \in DOMAIN rank_state : j > k => rank_state[j] = "None"
                /\ Len(previous_solutions_constraints) = k
    ]_vars

\* the first rank built, solved and accepted, its strategy reported
C8_Witness ==
  /\ rank_state[0] = "Accepted"
  /\ solve_calls[0] = 1
  /\ Len(strategies) = 1 /\ strategies[1].rank = 0

\* C9: a rank whose solve ends in a status other than Optimal becomes
\* Infeasible with a warning that names it; the solve is called once per rank,
\* nothing is extracted for the rank, the strategies of the ranks before it
\* stay, and the run ends with the ERROR record instead of crashing.
C9_InfeasibleRank ==
  /\ \A k \in DOMAIN solve_calls : solve_calls[k] <= 1
  /\ (prob.status \notin {"Optimal", "Not Solved"}) =>
       /\ sol = NoSol
       /\ pc # "solved" => rank_state[prob.idx] = "Infeasible"
  /\ \A k \in DOMAIN rank_state :
       rank_state[k] = "Infeasible" =>
         /\ pc \in {"except", "done"}
         /\ \E i \in DOMAIN ui_messages :
               ui_messages[i].kind = "warning" /\ ui_messages[i].rank = k
         /\ \A i \in DOMAIN strategies : strategies[i].rank # k
         /\ Len(previous_solutions_constraints) = k
         /\ \A j \in 0..(k - 1) : \E i \in DOMAIN strategies : strategies[i].rank = j
         /\ pc = "done" =>
              /\ log.status = "ERROR"
              /\ log.error_msg = "Solver failed with status: Infeasible. Check constraints."

\* a run whose cap is below the cheapest valid roster: the rank is Infeasible
\* and the run has ended with the ERROR record
C9_Witness ==
  /\ rank_state[0] = "Infeasible"
  /\ safety_margin > 0
  /\ pc = "done" /\ log.status = "ERROR" /\ log.ends = 1
  /\ strategies = << >>

\* C10: a run logged as STARTED ends with exactly one terminal record: ERROR
\* with the message of the fatal condition, that message shown once, or
\* SUCCESS; no run that has ended is left in status STARTED.
C10_TerminalRecord ==
  /\ log.ends <= 1
  /\ pc \in {"done", "crashed"} =>
       /\ log.status \in {"SUCCESS", "ERROR"}
       /\ log.ends = 1
       /\ error # "" =>
            /\ log.status = "ERROR" /\ log.error_msg = error
            /\ Cardinality({i \in DOMAIN ui_messages :
                  ui_messages[i].kind = "error" /\ ui_messages[i].text = error}) = 1
       /\ error = "" => log.status = "SUCCESS"

\* ------------------------------------------------------------------------
\* Properties of the run as a whole
\* ------------------------------------------------------------------------
\* C11: when the fetched roster does not hold exactly ROSTER_SIZE picks (one
\* pick short, or the empty list of a failed fetch or of a missing roster
\* source event), the run ends in the error path before anything else
\* happens: no schedule is resolved, no model is built, the solver is never
\* called and the run never reports success.
C11_ShortRosterFatal ==
  ~RosterLoaded =>
    /\ pc \in {"sidebar", "try", "except", "crashed"}
    /\ weeks_schedule = << >> /\ past_event_ids = << >> /\ future_event_ids = << >>
    /\ prob = NoProb /\ sol = NoSol /\ strategies = << >>
    /\ \A k \in DOMAIN solve_calls : solve_calls[k] = 0 /\ rank_state[k] = "None"
    /\ log.status # "SUCCESS"

\* a run on a roster one pick short has ended, after the check raised
C11_Witness ==
  /\ Len(my_team_data.picks) = ROSTER_SIZE - 1
  /\ error = "Initialization Error: initial roster size is incorrect"
  /\ pc = "crashed"

\* ------------------------------------------------------------------------
\* Manual overrides and availability
\* ------------------------------------------------------------------------
\* the players of the fetched picks
PickedPlayers == {my_team_data.picks[i].element : i \in DOMAIN my_team_data.picks}

\* C12: in every accepted solution a forced-drop player is held on no
\* optimized day, a forced-add player is held on day 0, an owned forced-keep
\* player is held on every optimized day and a forced-exclude player is held
\* on no day.
C12_Overrides ==
  \A i \in DOMAIN strategies : \A d \in Days :
     /\ \A p \in forced_drop_ids : p \notin HeldOn(strategies[i], d)
     /\ \A p \in forced_add_ids : p \in HeldOn(strategies[i], 0)
     /\ \A p \in forced_keep_ids \cap PickedPlayers : p \in HeldOn(strategies[i], d)
     /\ \A p \in forced_exclude_ids : p \notin HeldOn(strategies[i], d)

\* an accepted two-day solution under one override of each kind
C12_Witness ==
  /\ strategies # << >>
  /\ Len(future_event_ids) = 2
  /\ forced_drop_ids = {5} /\ forced_keep_ids = {11}
  /\ forced_add_ids = {13} /\ forced_exclude_ids = {12}
  /\ 13 \in HeldOn(strategies[1], 0) /\ 11 \in HeldOn(strategies[1], 1)
  /\ 5 \notin HeldOn(strategies[1], 0)

\* C13: on a horizon of one week and one day, an owned forced-keep player
\* with projected score 0 and a 10% chance of playing is held on day 0 and is
\* not among the starters of the solution the optimizer returns.
C13_KeptPlayerBenched ==
  \A i \in DOMAIN strategies :
     (weeks_to_optimize = 1 /\ Len(future_event_ids) = 1) =>
       \A p \in forced_keep_ids \cap PickedPlayers :
          (player_eps[p] = 0 /\ elements[p].chance = 10) =>
            /\ p \in HeldOn(strategies[i], 0)
            /\ p \notin StartsOn(strategies[i], 0)

\* ------------------------------------------------------------------------
\* The objective
\* ------------------------------------------------------------------------
\* the sum over (player, optimized day) of projected score, participation
\* probability and starter + captain
WeightedScore(a) ==
  LET keys == players_data \X Days
  IN SumOver(keys, [k \in keys |->
       player_eps[k[1]] * player_schedule(k[1], k[2])
         * (Val(a.starter, k) + Val(a.captain, k))])

\* every assignment of a one-day program: a roster, the transfers it forces,
\* starters among the held players with a fixture and at most one captain
\* among the starters
OneDayAssignments ==
  UNION {UNION {{[roster |-> R \X {0},
                  trans_in |-> {k \in players_data \X {0} : k[1] \in R \ Owned},
                  starter |-> S \X {0},
                  captain |-> C \X {0}] : C \in {{}} \cup {{c} : c \in S}} :
                 S \in SUBSET {p \in R : <<p, 0>> \in starter_keys}} :
           R \in {X \in KSubsets(players_data, ROSTER_SIZE) : RosterDayOK(X, 0)}}

\* C14: the solution a run accepts has the greatest weighted score among the
\* assignments that satisfy the constraints of the program (compared with
\* every such assignment on horizons of one day), the captain counting twice
\* and every other starter once, and the future score the run reports is one
\* tenth of that weighted score.
C14_ObjectiveAndReport ==
  /\ (pc = "solved" /\ prob.status = "Optimal" /\ Len(future_event_ids) = 1) =>
       \A a \in OneDayAssignments :
          Feasible(a, prob.cuts) => WeightedScore(a) <= WeightedScore(sol)
  /\ \A i \in DOMAIN strategies :
       /\ WeightedScore(strategies[i]) =
            SumOver(strategies[i].starter,
                    [k \in strategies[i].starter |->
                       player_eps[k[1]] * (IF k \in strategies[i].captain THEN 2 ELSE 1)])
       /\ strategies[i].future_proj.num = WeightedScore(strategies[i])
       /\ strategies[i].future_proj.den = 10

\* C14 as stated: the reported future score is the weighted score itself
C14_ReportEqualsSum ==
  \A i \in DOMAIN strategies :
     strategies[i].future_proj.num =
       WeightedScore(strategies[i]) * strategies[i].future_proj.den

\* an accepted one-day solution with a captain next to other starters, where
\* benching a starter would have satisfied the constraints as well
C14_Witness ==
  /\ strategies # << >>
  /\ Len(future_event_ids) = 1
  /\ Cardinality(strategies[1].captain) = 1
  /\ Cardinality(strategies[1].starter) >= 3
  /\ \A k \in strategies[1].captain : player_eps[k[1]] > 0
  /\ strategies[1].future_proj.num > 0

\* ------------------------------------------------------------------------
\* The events of a gameweek
\* ------------------------------------------------------------------------
\* the phase name holds the word Gameweek followed by the number g
NamesGameweek(ph, g) ==
  \E i \in 1..(Len(ph.name) - 1) :
     /\ ph.name[i] = "Gameweek"
     /\ ph.name[i + 1] \in {"1", "2", "3", "02"}
     /\ g = (CASE ph.name[i + 1] = "1" -> 1 [] ph.name[i + 1] = "3" -> 3 [] OTHER -> 2)

\* the list start_event..stop_event of phase ph, ascending and without gaps
IsEventList(list, ph) ==
  /\ Len(list) = (IF ph.stop_event >= ph.start_event
                  THEN ph.stop_event - ph.start_event + 1 ELSE 0)
  /\ \A i \in DOMAIN list : list[i] = ph.start_event + i - 1

C16_MissingPhaseStopsRun ==
  (\E w \in 0..(weeks_to_optimize - 1) :
      get_gameweek_event_range(phases, gameweek_input + w) = << >>) =>
    /\ prob = NoProb /\ strategies = << >>
    /\ \A k \in DOMAIN solve_calls : solve_calls[k] = 0
    /\ log.status # "SUCCESS"

\* ------------------------------------------------------------------------
\* The projected score
\* ------------------------------------------------------------------------
\* the games of a history that were played before the day
Completed(history, day) == {g \in Range(history) : g.kickoff < day}

\* the k most recent games of a set of games on different dates
MostRecent(games, k) ==
  {g \in games : Cardinality({h \in games : h.kickoff > g.kickoff}) < k}

\* the two most recent completed games exist and both show zero minutes
SatOutTwice(history, day) ==
  /\ Cardinality(Completed(history, day)) >= 2
  /\ \A g \in MostRecent(Completed(history, day), 2) : g.minutes = 0

\* the result is the mean of total_points over the five most recent completed
\* games with points, 0 when there is none
IsMeanOfRecent(result, history, day) ==
  LET scored == {g \in Completed(history, day) : g.total_points > 0}
      last == MostRecent(scored, 5)
  IN /\ ~result.none
     /\ IF last = {} THEN result.sum = 0
        ELSE result.sum * Cardinality(last) =
               SumOver(last, [g \in last |-> g.total_points]) * result.n

\* C17: the projected score is the arithmetic mean of total_points over the
\* five most recent completed games (dated before today) whose total_points
\* is above 0, the other games being removed before the cut to five, and 0
\* when there is no such game; when the two most recent completed games both
\* show zero minutes there is no score at all (None).
C17_ProjectedScore ==
  (fn_call # << >> /\ fn_call[1] = "get_player_history_avg") =>
    IF SatOutTwice(fn_call[2].history, fn_call[3])
    THEN fn_result.none
    ELSE IsMeanOfRecent(fn_result, fn_call[2].history, fn_call[3])

\* C17 as stated: the mean for every history
C17_MeanForEveryHistory ==
  (fn_call # << >> /\ fn_call[1] = "get_player_history_avg") =>
    IsMeanOfRecent(fn_result, fn_call[2].history, fn_call[3])

\* six completed games, the newest played without points and the five before
\* it with points: the mean is taken over those five
C17_Witness ==
  /\ fn_call # << >> /\ fn_call[1] = "get_player_history_avg"
  /\ Len(fn_call[2].history) = 6 /\ fn_call[3] = 7
  /\ \E g \in Range(fn_call[2].history) :
        g.kickoff = 6 /\ g.minutes > 0 /\ g.total_points = 0
  /\ \A g \in Range(fn_call[2].history) : g.kickoff < 6 => g.total_points > 0
  /\ fn_call[2].history[1].kickoff = 1
  /\ ~fn_result.none /\ fn_result.sum = 150 /\ fn_result.n = 5

\* ------------------------------------------------------------------------
\* Unavailable players
\* ------------------------------------------------------------------------
\* the two most recent games of the player show zero minutes
SatOut(p) == SatOutTwice(element_summary[p].history, today)

\* a reported chance of playing below 50
LowChance(p) == elements[p].chance # -1 /\ elements[p].chance < 50

Unavailable(p) == SatOut(p) \/ LowChance(p)

\* C18: a player is unavailable when the two most recent recorded games show
\* zero minutes or the reported chance of playing is below 50; a chance of
\* exactly 50, or none, leaves the player available.  Once the scores of a
\* run are computed, an unavailable player who is neither owned nor forced in
\* has no entry in the model's player set and is held in no accepted roster;
\* an unavailable owned player has an entry with score 0, except that a forced
\* keep makes a low chance count for nothing, so that the player keeps the
\* score of the game history; an available player who is not excluded has an
\* entry with the score of the game history.
C18_Unavailable ==
  player_eps # << >> =>
    \A p \in Players :
       /\ (Unavailable(p) /\ p \notin PickedPlayers /\ p \notin forced_add_ids) =>
            /\ p \notin DOMAIN player_eps
            /\ \A i \in DOMAIN strategies : \A d \in Days :
                  p \notin HeldOn(strategies[i], d)
       /\ (Unavailable(p) /\ p \in PickedPlayers) =>
            /\ p \in DOMAIN player_eps
            /\ player_eps[p] =
                 (IF p \in forced_keep_ids /\ ~SatOut(p) THEN LastScore[p] ELSE 0)
       /\ (~Unavailable(p) /\ p \notin forced_exclude_ids) =>
            /\ p \in DOMAIN player_eps
            /\ player_eps[p] = LastScore[p]

\* an accepted solution of a run in which a kept owned player with a low
\* chance has the score of the game history, an owned player who sat out twice
\* has score 0, two unavailable players of the market have no entry and the
\* player with a chance of exactly 50 has one
C18_Witness ==
  /\ strategies # << >>
  /\ forced_keep_ids = {9} /\ forced_add_ids = {} /\ forced_exclude_ids = {}
  /\ elements[9].chance = 25 /\ player_eps[9] = 18
  /\ SatOut(11) /\ player_eps[11] = 0
  /\ LowChance(13) /\ 13 \notin DOMAIN player_eps
  /\ SatOut(14) /\ ~LowChance(14) /\ 14 \notin DOMAIN player_eps
  /\ elements[12].chance = 50 /\ player_eps[12] = 26

\* ------------------------------------------------------------------------
\* The first optimized day
\* ------------------------------------------------------------------------
\* C19: whenever the full owned roster of ten players is known, every
\* accepted solution holds on day 0 exactly the owned players.
C19_DayZeroContinuity ==
  Len(my_team_data.picks) = 10 =>
    \A i \in DOMAIN strategies : HeldOn(strategies[i], 0) = PickedPlayers

Returned == prob.status = "Optimal" /\ sol # NoSol

\* the (player, day) pairs at which a player entered the roster of the
\* returned assignment: held that day and not the day before, not owned on day 0
EnteredAt(a) ==
  {k \in Players \X Days :
     /\ k \in a.roster
     /\ IF k[2] = 0 THEN k[1] \notin Owned ELSE <<k[1], k[2] - 1>> \notin a.roster}

TransfersOfWeek(S, w) == {k \in S : k[2] \in DaysOfWeek(w)}

\* C21 (amended): in every assignment the solver returns as optimal,
\* transferIn[p,d] = 1 for every player p that entered the roster on day d, so
\* in every week the transferIn variables that are 1 number at least the
\* players that entered the roster in that week.
C21_TransfersCoverEntries ==
  Returned =>
    /\ EnteredAt(sol) \subseteq sol.trans_in
    /\ \A w \in DOMAIN weeks_schedule :
         Cardinality(TransfersOfWeek(sol.trans_in, w))
           >= Cardinality(TransfersOfWeek(EnteredAt(sol), w))

\* C21 as stated: transferIn[p,d] = 1 only where a player entered, and the
\* week's sum of transferIn equals the number of players that entered
C21_OnlyForcedTransfers ==
  Returned =>
    /\ sol.trans_in \subseteq EnteredAt(sol)
    /\ \A w \in DOMAIN weeks_schedule :
         Cardinality(TransfersOfWeek(sol.trans_in, w))
           = Cardinality(TransfersOfWeek(EnteredAt(sol), w))

\* a returned assignment in which a player entered after the first day and
\* one transferIn variable is 1 for a player that did not enter
C21_Witness ==
  /\ Returned
  /\ \E k \in EnteredAt(sol) : k[2] > 0
  /\ sol.trans_in \ EnteredAt(sol) # {}

\* ------------------------------------------------------------------------
\* The split of the horizon into settled and optimized days
\* ------------------------------------------------------------------------
\* how often the event e occurs in the sequence s
Occurrences(s, e) == Cardinality({i \in DOMAIN s : s[i] = e})

\* C22: once the horizon is resolved, every day of it is in exactly one of
\* past_event_ids and future_event_ids; in simulation mode the past is the
\* first (game day - 1) days of the first week and the future is every day
\* after them, in order, and is not empty; the future days have the solver
\* indices 0..N-1 in the order of the sequence, one index a day, and a past day
\* has none.
C22_PastFutureSplit ==
  weeks_schedule # << >> =>
    LET all == Flatten(weeks_schedule)
        n == Len(past_event_ids)
    IN /\ \A i \in DOMAIN all :
            Occurrences(past_event_ids, all[i]) + Occurrences(future_event_ids, all[i]) = 1
       /\ Range(past_event_ids) \cup Range(future_event_ids) \subseteq Range(all)
       /\ use_sim_mode =>
            /\ n = sim_game_day - 1
            /\ past_event_ids = SubSeq(weeks_schedule[1].events, 1, n)
            /\ future_event_ids = SubSeq(all, n + 1, Len(all))
            /\ future_event_ids # << >>
       /\ \A i \in DOMAIN future_event_ids : SolverIdx(future_event_ids[i]) = i - 1
       /\ \A e \in Range(past_event_ids) : \A d \in Days : EventOfDay(d) # e

\* a simulated run of two weeks from the second game day of the first: one
\* settled day, and two optimized days that lie in different weeks
C22_Witness ==
  /\ use_sim_mode /\ sim_game_day = 2
  /\ Len(weeks_schedule) = 2
  /\ Len(past_event_ids) = 1 /\ Len(future_event_ids) = 2
  /\ pc = "loop"

\* ------------------------------------------------------------------------
\* The wildcard day
\* ------------------------------------------------------------------------
\* the optimized days of week w whose transfers the week's limit leaves out
ExemptDays(w) == {d \in DaysOfWeek(w) : d \notin CountedDays(w)}

\* C23: when the wildcard is played, exactly one optimized day of the first
\* week is exempt from the weekly transfer limit: the first optimized day when
\* the wildcard is forced on the first simulated day, otherwise the day of the
\* current game day (in simulation mode, the day the simulation starts from);
\* when the wildcard is not played, and in every later week, no day is exempt.
C23_WildcardDay ==
  future_event_ids # << >> =>
    \A w \in DOMAIN weeks_schedule :
       DaysOfWeek(w) # {} =>
         IF w = 1 /\ play_wildcard
         THEN /\ Cardinality(ExemptDays(w)) = 1
              /\ force_wc_on_day_1 => ExemptDays(w) = {FirstIdx(w)}
              /\ (~force_wc_on_day_1 /\ use_sim_mode) =>
                   EventOfDay(CHOOSE d \in ExemptDays(w) : TRUE)
                     = weeks_schedule[1].events[sim_game_day]
         ELSE ExemptDays(w) = {}

\* ------------------------------------------------------------------------
\* get_win_probability
\* ------------------------------------------------------------------------
WinCall == fn_call # << >> /\ fn_call[1] = "get_win_probability"

\* the row of the team in the table of the call
RowOf(id) ==
  LET df == fn_call[4] IN df[CHOOSE k \in DOMAIN df : df[k].id = id]

InTable(id) == \E k \in DOMAIN fn_call[4] : fn_call[4][k].id = id

HasRecord(t) == t.win + t.loss > 0

IsHalf(q) == 2 * q.num = q.den

\* q = (a / b) / (a / b + c / d)
IsShareOf(q, a, b, c, d) == q.num * (a * d + c * b) = q.den * (a * d)

\* C24 (amended): get_win_probability(team1, team2) counts a team that has no
\* recorded games (wins + losses = 0) at a win ratio of 0.5 and returns team1's
\* win ratio divided by the sum of both teams' win ratios (0.5 when both ratios
\* are 0); so it returns 0.5 when neither team has recorded games, and it
\* returns 0.5 when a team is not in the table.
C24_WinProbability ==
  WinCall =>
    IF ~(InTable(fn_call[2]) /\ InTable(fn_call[3])) THEN IsHalf(fn_result)
    ELSE LET t1 == RowOf(fn_call[2])
             t2 == RowOf(fn_call[3])
             a == IF HasRecord(t1) THEN t1.win ELSE 1
             b == IF HasRecord(t1) THEN t1.win + t1.loss ELSE 2
             c == IF HasRecord(t2) THEN t2.win ELSE 1
             d == IF HasRecord(t2) THEN t2.win + t2.loss ELSE 2
         IN /\ fn_result.den > 0
            /\ IF a = 0 /\ c = 0 THEN IsHalf(fn_result)
               ELSE IsShareOf(fn_result, a, b, c, d)
            /\ (~HasRecord(t1) /\ ~HasRecord(t2)) => IsHalf(fn_result)

\* C24 as stated: 0.5 whenever either of the two teams has no recorded games
C24_HalfWithoutRecord ==
  (WinCall /\ InTable(fn_call[2]) /\ InTable(fn_call[3])) =>
    ((~HasRecord(RowOf(fn_call[2])) \/ ~HasRecord(RowOf(fn_call[3])))
       => IsHalf(fn_result))

\* a call for a team without games against a team that won more games than it
\* lost, answered with less than 0.5
C24_Witness ==
  /\ WinCall /\ InTable(fn_call[2]) /\ InTable(fn_call[3])
  /\ ~HasRecord(RowOf(fn_call[2]))
  /\ RowOf(fn_call[3]).win > RowOf(fn_call[3]).loss
  /\ 2 * fn_result.num < fn_result.den

\* ------------------------------------------------------------------------
\* The owned roster and the budget
\* ------------------------------------------------------------------------
\* the run has computed the budget cap and the projected scores
Budgeted == DOMAIN player_eps # {}

\* C25: holding the owned roster (every owned player in the active catalog)
\* unchanged satisfies the budget constraint of a day if and only if the bank
\* is at least the safety margin; with bank 0 and margin 1 every accepted
\* solution holds, on every optimized day, a roster that costs less than the
\* owned one, and so brought in a player on the first day.
C25_HoldingWithinBudget ==
  (Budgeted /\ Owned \subseteq active_players) =>
    /\ BudgetOK(Owned) <=> my_team_data.bank >= safety_margin
    /\ HeldCost(Owned) <= total_budget_safe <=> my_team_data.bank >= safety_margin
    /\ (my_team_data.bank = 0 /\ safety_margin = 1) =>
         \A i \in DOMAIN strategies :
            /\ HeldOn(strategies[i], 0) # Owned
            /\ \A d \in Days :
                 HeldCost(HeldOn(strategies[i], d)) < HeldCost(Owned)

\* an accepted solution of a run with bank 0 and margin 1
C25_Witness ==
  /\ my_team_data.bank = 0 /\ safety_margin = 1
  /\ strategies # << >>
  /\ ~BudgetOK(Owned)

\* ------------------------------------------------------------------------
\* The owned players in the model
\* ------------------------------------------------------------------------
\* the run has built the integer program of its first rank
ModelBuilt == rank_state[0] # "None"

\* C26: whenever a run reaches model construction, every one of the 10 owned
\* player ids has roster variables in the model and a sale value in the
\* liquidation value, so the plan that keeps the owned roster on every
\* optimized day without a transfer is an assignment of the model's variables.
C26_OwnedPlayersInModel ==
  ModelBuilt =>
    /\ Cardinality(Owned) = ROSTER_SIZE
    /\ \A pid \in Owned :
         /\ \A d \in Days : <<pid, d>> \in players_data \X Days
         /\ pid \in DOMAIN my_selling_prices
    /\ current_roster_liquidation_value = SaleSum(Owned)
    /\ Owned \subseteq players_data

\* ------------------------------------------------------------------------
\* The reported scores
\* ------------------------------------------------------------------------
RECURSIVE PointsOf(_)
PointsOf(E) ==
  IF E = {} THEN 0
  ELSE LET e == CHOOSE x \in E : TRUE IN picks_by_event[e].points + PointsOf(E \ {e})

RECURSIVE BreakdownSum(_, _)
BreakdownSum(G, b) ==
  IF G = {} THEN 0
  ELSE LET g == CHOOSE x \in G : TRUE IN b[g].num + BreakdownSum(G \ {g}, b)

\* the starters' projected scores of the days D, the captain's twice
RECURSIVE LineupScore(_, _)
LineupScore(st, D) ==
  IF D = {} THEN 0
  ELSE LET d == CHOOSE x \in D : TRUE
       IN EpSum(StartsOn(st, d)) + EpSum(CaptainsOn(st, d)) + LineupScore(st, D \ {d})

====
